---- MODULE Spec2Model ----
(***************************************************************************)
(* A model of htmlfy's protection / ignore round-trip pipeline and of its  *)
(* configuration validator (src/node_modules/htmlfy/src/utils.js and the   *)
(* constants module, src/unnamed/part_000).                                *)
(*                                                                         *)
(* A JavaScript string is a sequence of one-character strings.  Every      *)
(* regular expression of utils.js is an operator that tells, for a string  *)
(* s and a position i, whether the expression matches at i, and where the  *)
(* match and its capture group end; a backtracking engine tries a greedy   *)
(* quantifier's longest repetition first, so among the ways to match it    *)
(* finds the one whose repetition counts are lexicographically greatest.   *)
(***************************************************************************)
EXTENDS Integers, Sequences, FiniteSets, TLC

VARIABLES
    html,      \* the working string of the formatting call in progress
    input,     \* the string the caller passed in
    config,    \* the configuration the string functions are called with
    pc,        \* the position of the call in progress
    stack,     \* the encoders applied and not yet undone, innermost last
    applied,   \* the functions applied so far, in order
    heap,      \* the JavaScript heap: address -> object or array
    arg,       \* the value the caller passed to validateConfig / mergeConfig
    before,    \* what the caller's value held when the call began
    ret,       \* the value the call returned
    err,       \* the error the call threw ("" when it returned)
    calls      \* how many configuration calls have been made

vars == <<html, input, config, pc, stack, applied, heap, arg, before, ret, err, calls>>

----------------------------------------------------------------------------
(* Character classes of the regular expressions.                           *)

Lower == {"a", "b", "c", "d", "e", "f", "g", "h", "i", "j", "k", "l", "m",
          "n", "o", "p", "q", "r", "s", "t", "u", "v", "w", "x", "y", "z"}
Upper == {"A", "B", "C", "D", "E", "F", "G", "H", "I", "J", "K", "L", "M",
          "N", "O", "P", "Q", "R", "S", "T", "U", "V", "W", "X", "Y", "Z"}
Digit == {"0", "1", "2", "3", "4", "5", "6", "7", "8", "9"}

\* \s
WhiteSpace == {" ", "\t", "\n", "\r", "\f"}
\* \w
WordChar == Lower \cup Upper \cup Digit \cup {"_"}
\* [\w:\-]
TagChar == WordChar \cup {":", "-"}
\* . (without the s flag): any character but a line terminator
Dot(c) == c \notin {"\n", "\r"}

\* constants.js: ATTRIBUTE_IGNORE_STRING = '!i-£___£%_'
ATTRIBUTE_IGNORE_STRING == <<"!", "i", "-", "£", "_", "_", "_", "£", "%", "_">>

----------------------------------------------------------------------------
(* String primitives.                                                      *)

\* s.startsWith(p, i - 1): p occurs in s at position i
OccursAt(s, p, i) ==
    /\ i >= 1
    /\ i + Len(p) - 1 <= Len(s)
    /\ \A k \in 1..Len(p) : s[i + k - 1] = p[k]

\* s.indexOf(p, from - 1) + 1: the first position >= from where p occurs, or 0
IndexOf(s, p, from) ==
    LET hits == {i \in from..(Len(s) - Len(p) + 1) : OccursAt(s, p, i)}
    IN  IF hits = {} THEN 0 ELSE CHOOSE i \in hits : \A j \in hits : i <= j

Contains(s, p) == IndexOf(s, p, 1) # 0

\* the length of the longest run of characters of class C that starts at i
RECURSIVE Run(_, _, _)
Run(s, i, C) == IF i <= Len(s) /\ s[i] \in C THEN 1 + Run(s, i + 1, C) ELSE 0

\* s.replace(/[C]/g, r): every character of class C replaced by the string r
RECURSIVE ReplaceClass(_, _, _)
ReplaceClass(s, C, r) ==
    IF s = <<>> THEN <<>>
    ELSE (IF Head(s) \in C THEN r ELSE <<Head(s)>>) \o ReplaceClass(Tail(s), C, r)

\* s.replace(new RegExp(p, "g"), r) for a pattern p without metacharacters:
\* the occurrences of p, leftmost first and not overlapping, replaced by r
RECURSIVE ReplaceAllFrom(_, _, _, _)
ReplaceAllFrom(s, p, r, i) ==
    IF i > Len(s) THEN <<>>
    ELSE IF p # <<>> /\ OccursAt(s, p, i)
         THEN r \o ReplaceAllFrom(s, p, r, i + Len(p))
         ELSE <<s[i]>> \o ReplaceAllFrom(s, p, r, i + 1)

ReplaceAll(s, p, r) == ReplaceAllFrom(s, p, r, 1)

\* match.replace(capture, fn) with a string pattern: only the FIRST occurrence
\* of capture in match is replaced, by fn(capture) = r
ReplaceFirst(match, capture, r) ==
    LET at == IndexOf(match, capture, 1)
    IN  IF at = 0 THEN match
        ELSE SubSeq(match, 1, at - 1) \o r
             \o SubSeq(match, at + Len(capture), Len(match))

\* A match: the position of its last character (0: no match here) and the
\* bounds of its capture group.
NoMatch == [end |-> 0, from |-> 0, to |-> 0]

\* html.replace(regex /g, replacer): at[i] is the regex tried at position i and
\* by[i] what the replacer returns for the match found there.  The scan takes
\* the leftmost match, copies what precedes it, and goes on after its end.
RECURSIVE ReplaceMatches(_, _, _, _)
ReplaceMatches(s, i, at, by) ==
    IF i > Len(s) THEN <<>>
    ELSE IF at[i].end = 0
         THEN <<s[i]>> \o ReplaceMatches(s, i + 1, at, by)
         ELSE by[i] \o ReplaceMatches(s, at[i].end + 1, at, by)

Matched(s, i, m) == SubSeq(s, i, m.end)
Capture(s, m) == SubSeq(s, m.from, m.to)

\* the lexicographically greatest pair of a non-empty set of pairs
Greatest(P) ==
    CHOOSE p \in P : \A q \in P : q[1] < p[1] \/ (q[1] = p[1] /\ q[2] <= p[2])

----------------------------------------------------------------------------
(* protectAttributes / unprotectAttributes                                 *)

\* /<[\w:\-]+([^>]*[^\/])>/ tried at i: n characters of tag name, then k
\* characters other than ">", then one character other than "/", then ">"
AttributeRegion(s, i) ==
    IF ~(i <= Len(s) /\ s[i] = "<") THEN NoMatch
    ELSE LET ways == {p \in (1..Run(s, i + 1, TagChar)) \X (0..Len(s)) :
                        /\ i + p[1] + p[2] + 2 <= Len(s)
                        /\ \A j \in (i + p[1] + 1)..(i + p[1] + p[2]) : s[j] # ">"
                        /\ s[i + p[1] + p[2] + 1] # "/"
                        /\ s[i + p[1] + p[2] + 2] = ">"}
         IN  IF ways = {} THEN NoMatch
             ELSE LET w == Greatest(ways)
                  IN  [end  |-> i + w[1] + w[2] + 2,
                       from |-> i + w[1] + 1,
                       to   |-> i + w[1] + w[2] + 1]

AttrToken(class) == ATTRIBUTE_IGNORE_STRING \o class
NL == <<"n", "l", "!">>
CR == <<"c", "r", "!">>
WS == <<"w", "s", "!">>
LT == <<"l", "t", "!">>
GT == <<"g", "t", "!">>

\* utils.js 81-84: \n, then \r, then every remaining \s
ProtectCapture(c) ==
    ReplaceClass(ReplaceClass(ReplaceClass(c, {"\n"}, AttrToken(NL)),
                              {"\r"}, AttrToken(CR)),
                 WhiteSpace, AttrToken(WS))

\* utils.js 79-86
protectAttributes(h) ==
    LET at == [i \in 1..Len(h) |-> AttributeRegion(h, i)]
        by == [i \in 1..Len(h) |->
                 IF at[i].end = 0 THEN <<>>
                 ELSE ReplaceFirst(Matched(h, i, at[i]), Capture(h, at[i]),
                                   ProtectCapture(Capture(h, at[i])))]
    IN  ReplaceMatches(h, 1, at, by)

\* utils.js 168-171: the three tokens back to "\n", "\r" and " "
UnprotectCapture(c) ==
    ReplaceAll(ReplaceAll(ReplaceAll(c, AttrToken(NL), <<"\n">>),
                          AttrToken(CR), <<"\r">>),
               AttrToken(WS), <<" ">>)

\* utils.js 166-173
unprotectAttributes(h) ==
    LET at == [i \in 1..Len(h) |-> AttributeRegion(h, i)]
        by == [i \in 1..Len(h) |->
                 IF at[i].end = 0 THEN <<>>
                 ELSE ReplaceFirst(Matched(h, i, at[i]), Capture(h, at[i]),
                                   UnprotectCapture(Capture(h, at[i])))]
    IN  ReplaceMatches(h, 1, at, by)

----------------------------------------------------------------------------
(* setIgnoreAttribute / unsetIgnoreAttribute                                *)

\* [A-Za-z0-9_-], the characters of an attribute name in utils.js 98
AttrNameChar == Lower \cup Upper \cup Digit \cup {"_", "-"}

\* The second group of the regular expression of utils.js 98 and the ">" after it,
\*   \s*[a-z]*(?:\s+[A-Za-z0-9_-]+="[^"]*")*\s*[a-z]*>
\* as an automaton run from position j in state st: the positions of the
\* closing ">" it can reach.  A quoted value ends at the next quotation mark
\* and a ">" outside a quoted value ends the tag, so at most one is reached and
\* the order in which the engine tries the alternatives does not show.
RECURSIVE AttrListEnd(_, _, _)
AttrListEnd(s, j, st) ==
    LET c == IF j <= Len(s) THEN s[j] ELSE "" IN
    CASE st = "ws1" ->
           (IF c \in WhiteSpace THEN AttrListEnd(s, j + 1, "ws1") ELSE {})
           \cup AttrListEnd(s, j, "lc1")
      [] st = "lc1" ->
           (IF c \in Lower THEN AttrListEnd(s, j + 1, "lc1") ELSE {})
           \cup AttrListEnd(s, j, "attrs")
      [] st = "attrs" ->
           (IF c \in WhiteSpace THEN AttrListEnd(s, j + 1, "sp") ELSE {})
           \cup AttrListEnd(s, j, "ws2")
      [] st = "sp" ->
           IF c \in WhiteSpace THEN AttrListEnd(s, j + 1, "sp")
           ELSE IF c \in AttrNameChar THEN AttrListEnd(s, j + 1, "name")
           ELSE {}
      [] st = "name" ->
           IF c \in AttrNameChar THEN AttrListEnd(s, j + 1, "name")
           ELSE IF OccursAt(s, <<"=", "\"">>, j) THEN AttrListEnd(s, j + 2, "value")
           ELSE {}
      [] st = "value" ->
           IF j > Len(s) THEN {}
           ELSE IF c = "\"" THEN AttrListEnd(s, j + 1, "attrs")
           ELSE AttrListEnd(s, j + 1, "value")
      [] st = "ws2" ->
           (IF c \in WhiteSpace THEN AttrListEnd(s, j + 1, "ws2") ELSE {})
           \cup AttrListEnd(s, j, "lc2")
      [] st = "lc2" ->
           (IF c \in Lower THEN AttrListEnd(s, j + 1, "lc2") ELSE {})
           \cup (IF c = ">" THEN {j} ELSE {})

\* [A-Za-z][A-Za-z0-9]* at i: the lengths it can take
PlainNames(s, i) ==
    IF i <= Len(s) /\ s[i] \in Lower \cup Upper
    THEN 1..(1 + Run(s, i + 1, Lower \cup Upper \cup Digit))
    ELSE {}

\* [a-z][a-z0-9._]*-[a-z0-9._-]+ at i: the lengths it can take
CustomNames(s, i) ==
    IF i <= Len(s) /\ s[i] \in Lower
    THEN LET a == Run(s, i + 1, Lower \cup Digit \cup {".", "_"})
         IN  IF i + 1 + a <= Len(s) /\ s[i + 1 + a] = "-"
             THEN {a + 2 + b : b \in 1..Run(s, i + a + 2, Lower \cup Digit \cup {".", "_", "-"})}
             ELSE {}
    ELSE {}

\* utils.js 98 tried at i.  The first alternative of the name is tried before
\* the second and a longer name before a shorter one: a way is
\* <<rank of the name, position of the closing ">">>.
OpeningTag(s, i) ==
    IF ~(i <= Len(s) /\ s[i] = "<") THEN NoMatch
    ELSE LET ways ==
               {<<Len(s) + n, e>> : n \in PlainNames(s, i + 1), e \in 1..Len(s)}
               \cup {<<n, e>> : n \in CustomNames(s, i + 1), e \in 1..Len(s)}
             name(w) == IF w[1] > Len(s) THEN w[1] - Len(s) ELSE w[1]
             good == {w \in ways : w[2] \in AttrListEnd(s, i + 1 + name(w), "ws1")}
         IN  IF good = {} THEN NoMatch
             ELSE LET w == Greatest(good)
                  IN  [end |-> w[2], from |-> i + 1 + name(w), to |-> w[2] - 1]

\* utils.js 102-104: "<" first, then ">"
SetBrackets(c) ==
    ReplaceClass(ReplaceClass(c, {"<"}, AttrToken(LT)), {">"}, AttrToken(GT))

\* utils.js 97-109
setIgnoreAttribute(h) ==
    LET at == [i \in 1..Len(h) |-> OpeningTag(h, i)]
        by == [i \in 1..Len(h) |->
                 IF at[i].end = 0 THEN <<>>
                 ELSE ReplaceFirst(Matched(h, i, at[i]), Capture(h, at[i]),
                                   SetBrackets(Capture(h, at[i])))]
    IN  ReplaceMatches(h, 1, at, by)

\* /<[\w:\-]+([^>]*)>/ tried at i
AnyTag(s, i) ==
    IF ~(i <= Len(s) /\ s[i] = "<") THEN NoMatch
    ELSE LET ways == {p \in (1..Run(s, i + 1, TagChar)) \X (0..Len(s)) :
                        /\ i + p[1] + p[2] + 1 <= Len(s)
                        /\ \A j \in (i + p[1] + 1)..(i + p[1] + p[2]) : s[j] # ">"
                        /\ s[i + p[1] + p[2] + 1] = ">"}
         IN  IF ways = {} THEN NoMatch
             ELSE LET w == Greatest(ways)
                  IN  [end  |-> i + w[1] + w[2] + 1,
                       from |-> i + w[1] + 1,
                       to   |-> i + w[1] + w[2]]

\* a decoder that restores '<' for both tokens
UnsetAsOpening(c) ==
    ReplaceAll(ReplaceAll(c, AttrToken(LT), <<"<">>), AttrToken(GT), <<"<">>)

\* utils.js 187-189: the "lt" token first, then the "gt" token
UnsetBrackets(c) ==
    ReplaceAll(ReplaceAll(c, AttrToken(LT), <<"<">>), AttrToken(GT), <<">">>)

\* utils.js 184-194
unsetIgnoreAttribute(h) ==
    LET at == [i \in 1..Len(h) |-> AnyTag(h, i)]
        by == [i \in 1..Len(h) |->
                 IF at[i].end = 0 THEN <<>>
                 ELSE ReplaceFirst(Matched(h, i, at[i]), Capture(h, at[i]),
                                   UnsetBrackets(Capture(h, at[i])))]
    IN  ReplaceMatches(h, 1, at, by)

----------------------------------------------------------------------------
(* setIgnoreElement / unsetIgnoreElement                                    *)

\* new RegExp(`<${tag}[^>]*>((.|\n)*?)<\/${tag}>`) tried at i, for a tag name
\* without metacharacters: k characters other than ">" (greedy), ">", then m
\* characters that are "." or "\n" (lazy: the fewest first), then the closing tag
IgnoredElement(s, i, tag) ==
    LET open  == <<"<">> \o tag
        close == <<"<", "/">> \o tag \o <<">">>
        body  == i + Len(open)
    IN  IF ~OccursAt(s, open, i) THEN NoMatch
        ELSE LET ways == {p \in (0..Len(s)) \X (0..Len(s)) :
                            /\ body + p[1] + p[2] <= Len(s)
                            /\ \A j \in body..(body + p[1] - 1) : s[j] # ">"
                            /\ s[body + p[1]] = ">"
                            /\ \A j \in (body + p[1] + 1)..(body + p[1] + p[2]) :
                                   Dot(s[j]) \/ s[j] = "\n"
                            /\ OccursAt(s, close, body + p[1] + p[2] + 1)}
             IN  IF ways = {} THEN NoMatch
                 ELSE LET w == CHOOSE p \in ways : \A q \in ways :
                                   q[1] < p[1] \/ (q[1] = p[1] /\ q[2] >= p[2])
                      IN  [end  |-> body + w[1] + w[2] + Len(close),
                           from |-> body + w[1] + 1,
                           to   |-> body + w[1] + w[2]]

ElemToken(with, class) == <<"-">> \o with \o class \o <<"-">>

\* utils.js 127-132: "<", ">", "\n", "\r", then every remaining \s
EncodeInner(c, with) ==
    ReplaceClass(
      ReplaceClass(
        ReplaceClass(
          ReplaceClass(
            ReplaceClass(c, {"<"}, ElemToken(with, <<"l", "t">>)),
            {">"}, ElemToken(with, <<"g", "t">>)),
          {"\n"}, ElemToken(with, <<"n", "l">>)),
        {"\r"}, ElemToken(with, <<"c", "r">>)),
      WhiteSpace, ElemToken(with, <<"w", "s">>))

\* utils.js 212-217: the five tokens back, the "ws" token to " "
DecodeInner(c, with) ==
    ReplaceAll(
      ReplaceAll(
        ReplaceAll(
          ReplaceAll(
            ReplaceAll(c, ElemToken(with, <<"l", "t">>), <<"<">>),
            ElemToken(with, <<"g", "t">>), <<">">>),
          ElemToken(with, <<"n", "l">>), <<"\n">>),
        ElemToken(with, <<"c", "r">>), <<"\r">>),
      ElemToken(with, <<"w", "s">>), <<" ">>)

\* utils.js 123-134: one pass of the loop, for one tag name
EncodeElements(h, tag, with) ==
    LET at == [i \in 1..Len(h) |-> IgnoredElement(h, i, tag)]
        by == [i \in 1..Len(h) |->
                 IF at[i].end = 0 THEN <<>>
                 ELSE ReplaceFirst(Matched(h, i, at[i]), Capture(h, at[i]),
                                   EncodeInner(Capture(h, at[i]), with))]
    IN  ReplaceMatches(h, 1, at, by)

\* utils.js 208-219: one pass of the loop, for one tag name
DecodeElements(h, tag, with) ==
    LET at == [i \in 1..Len(h) |-> IgnoredElement(h, i, tag)]
        by == [i \in 1..Len(h) |->
                 IF at[i].end = 0 THEN <<>>
                 ELSE ReplaceFirst(Matched(h, i, at[i]), Capture(h, at[i]),
                                   DecodeInner(Capture(h, at[i]), with))]
    IN  ReplaceMatches(h, 1, at, by)

\* utils.js 118-138: for (e = 0; e < ignore.length; e++), from e on
RECURSIVE SetLoop(_, _, _, _)
SetLoop(h, ignore, with, e) ==
    IF e > Len(ignore) THEN h
    ELSE SetLoop(EncodeElements(h, ignore[e], with), ignore, with, e + 1)

setIgnoreElement(h, c) == SetLoop(h, c.ignore, c.ignore_with, 1)

\* utils.js 203-223
RECURSIVE UnsetLoop(_, _, _, _)
UnsetLoop(h, ignore, with, e) ==
    IF e > Len(ignore) THEN h
    ELSE UnsetLoop(DecodeElements(h, ignore[e], with), ignore, with, e + 1)

unsetIgnoreElement(h, c) == UnsetLoop(h, c.ignore, c.ignore_with, 1)

----------------------------------------------------------------------------
(* trimify                                                                  *)

\* new RegExp(`(<${tag}[^>]*>)\\s+`) tried at i: the capture is the opening tag
LeadingWhitespace(s, i, tag) ==
    LET open == <<"<">> \o tag
        body == i + Len(open)
    IN  IF ~OccursAt(s, open, i) THEN NoMatch
        ELSE LET ways == {p \in (0..Len(s)) \X (1..Len(s)) :
                            /\ body + p[1] + p[2] <= Len(s)
                            /\ \A j \in body..(body + p[1] - 1) : s[j] # ">"
                            /\ s[body + p[1]] = ">"
                            /\ \A j \in (body + p[1] + 1)..(body + p[1] + p[2]) :
                                   s[j] \in WhiteSpace}
             IN  IF ways = {} THEN NoMatch
                 ELSE LET w == Greatest(ways)
                      IN  [end |-> body + w[1] + w[2], from |-> i, to |-> body + w[1]]

\* new RegExp(`\\s+(</${tag}>)`) tried at i: the capture is the closing tag
TrailingWhitespace(s, i, tag) ==
    LET close == <<"<", "/">> \o tag \o <<">">>
        ways  == {w \in 1..Run(s, i, WhiteSpace) : OccursAt(s, close, i + w)}
    IN  IF ways = {} THEN NoMatch
        ELSE LET w == CHOOSE x \in ways : \A y \in ways : y <= x
             IN  [end |-> i + w + Len(close) - 1, from |-> i + w,
                  to |-> i + w + Len(close) - 1]

\* s.replace(regex /g, '$1'): every match replaced by its capture
KeepCapture(s, at) ==
    ReplaceMatches(s, 1, at,
        [i \in 1..Len(s) |-> IF at[i].end = 0 THEN <<>> ELSE Capture(s, at[i])])

\* utils.js 150-155: one pass of the loop, for one tag name
TrimTag(h, tag) ==
    LET lead == KeepCapture(h, [i \in 1..Len(h) |-> LeadingWhitespace(h, i, tag)])
    IN  KeepCapture(lead, [i \in 1..Len(lead) |-> TrailingWhitespace(lead, i, tag)])

\* utils.js 147-159
RECURSIVE TrimLoop(_, _, _)
TrimLoop(h, trim, e) ==
    IF e > Len(trim) THEN h ELSE TrimLoop(TrimTag(h, trim[e]), trim, e + 1)

trimify(h, trim) == TrimLoop(h, trim, 1)

----------------------------------------------------------------------------
(* The formatting pipeline: protect attributes, protect tag brackets, encode  *)
(* ignored elements, [reformat], trim, decode ignored elements, decode tag    *)
(* brackets, unprotect attributes.  The reformatting step is not part of      *)
(* utils.js; it is the identity here.                                         *)

\* constants.js: CONFIG
CONFIG ==
    [ignore         |-> <<>>,
     ignore_with    |-> <<"_", "!", "i", "-", "£", "_", "_", "_", "£", "%", "_">>,
     strict         |-> FALSE,
     tab_size       |-> 2,
     tag_wrap       |-> FALSE,
     tag_wrap_width |-> 80,
     trim           |-> <<>>]

\* the words of at most n pieces over the vocabulary V
RECURSIVE Words(_, _)
Words(V, n) ==
    IF n = 0 THEN {<<>>}
    ELSE LET W == Words(V, n - 1) IN W \cup {w \o v : w \in W, v \in V}

Rank(f) ==
    CASE f = "protectAttributes" -> 1
      [] f = "setIgnoreAttribute" -> 2
      [] f = "setIgnoreElement" -> 3

\* an encoder runs before the reformatting step, after the encoders that
\* precede it in the pipeline
MayEncode(f) == pc = "encode" /\ \A k \in 1..Len(stack) : Rank(stack[k]) < Rank(f)
\* a decoder undoes the innermost encoder still applied
MayDecode(f) == stack # <<>> /\ stack[Len(stack)] = f

Encoded(f, h) ==
    /\ html' = h
    /\ stack' = Append(stack, f)
    /\ applied' = Append(applied, f)
    /\ UNCHANGED <<input, config, pc, heap, arg, before, ret, err, calls>>

Decoded(f, h) ==
    /\ html' = h
    /\ stack' = SubSeq(stack, 1, Len(stack) - 1)
    /\ applied' = Append(applied, f)
    /\ pc' = "decode"
    /\ UNCHANGED <<input, config, heap, arg, before, ret, err, calls>>

ProtectAttributes ==
    /\ MayEncode("protectAttributes")
    /\ Encoded("protectAttributes", protectAttributes(html))

SetIgnoreAttribute ==
    /\ MayEncode("setIgnoreAttribute")
    /\ Encoded("setIgnoreAttribute", setIgnoreAttribute(html))

SetIgnoreElement ==
    /\ MayEncode("setIgnoreElement")
    /\ Encoded("setIgnoreElement", setIgnoreElement(html, config))

\* trimming follows the reformatting step and precedes the decoders
Trimify ==
    /\ pc = "encode"
    /\ html' = trimify(html, config.trim)
    /\ applied' = Append(applied, "trimify")
    /\ pc' = "decode"
    /\ UNCHANGED <<input, config, stack, heap, arg, before, ret, err, calls>>

UnsetIgnoreElement ==
    /\ MayDecode("setIgnoreElement")
    /\ Decoded("unsetIgnoreElement", unsetIgnoreElement(html, config))

UnsetIgnoreAttribute ==
    /\ MayDecode("setIgnoreAttribute")
    /\ Decoded("unsetIgnoreAttribute", unsetIgnoreAttribute(html))

UnprotectAttributes ==
    /\ MayDecode("protectAttributes")
    /\ Decoded("unprotectAttributes", unprotectAttributes(html))

\* a formatting call on the string h with the configuration c
Format(h, c) ==
    /\ input = h /\ html = h /\ config = c
    /\ pc = "encode" /\ stack = <<>> /\ applied = <<>>
    /\ heap = <<>> /\ arg = 0 /\ before = 0 /\ ret = 0 /\ err = "" /\ calls = 0

Configured(ignore, with, trim) ==
    [CONFIG EXCEPT !.ignore = ignore, !.ignore_with = with, !.trim = trim]

\* The whole pipeline, on markup with attributes and one ignorable element.
MaxLen == 4
Vocabulary ==
    {<<"<", "a">>, <<">">>, <<" ">>, <<"\t">>, <<"\n">>, <<"\r">>,
     <<"b", "=", "\"">>, <<"\"">>, <<"<", "s", ">">>, <<"<", "/", "s", ">">>, <<"<">>}
Configurations == {CONFIG, Configured(<<<<"s">>>>, <<"X">>, <<<<"s">>>>)}

Init == \E h \in Words(Vocabulary, MaxLen), c \in Configurations : Format(h, c)

Next ==
    \/ ProtectAttributes
    \/ SetIgnoreAttribute
    \/ SetIgnoreElement
    \/ Trimify
    \/ UnsetIgnoreElement
    \/ UnsetIgnoreAttribute
    \/ UnprotectAttributes

Spec == Init /\ [][Next]_vars

\* C1: composed round trip in pipeline order: for every validated configuration
\* and every string without either sentinel, the three encoders followed (with
\* nothing in between) by the three decoders in reverse order return the string.
PipelineOrder ==
    <<"protectAttributes", "setIgnoreAttribute", "setIgnoreElement",
      "unsetIgnoreElement", "unsetIgnoreAttribute", "unprotectAttributes">>

ComposedRoundTrip ==
    (/\ applied = PipelineOrder
     /\ ~Contains(input, ATTRIBUTE_IGNORE_STRING)
     /\ ~Contains(input, config.ignore_with))
    => html = input

\* C2: attribute round trip: unprotectAttributes(protectAttributes(x)) = x for
\* every x without the attribute sentinel; every newline, carriage return and
\* other whitespace character of an attribute region comes back as it was.
AttributeRoundTrip ==
    (/\ applied = <<"protectAttributes", "unprotectAttributes">>
     /\ ~Contains(input, ATTRIBUTE_IGNORE_STRING))
    => html = input

\* C3: element-ignore round trip: unsetIgnoreElement(setIgnoreElement(h, c), c) = h
\* for every configuration c and every h without c's sentinel.
ElementRoundTrip ==
    (/\ applied = <<"setIgnoreElement", "unsetIgnoreElement">>
     /\ ~Contains(input, config.ignore_with))
    => html = input

\* an opening tag of the element named tag begins at i: "<", the name, a
\* character that ends the name
OpensAt(s, i, tag) ==
    /\ OccursAt(s, <<"<">> \o tag, i)
    /\ i + Len(tag) + 1 <= Len(s)
    /\ s[i + Len(tag) + 1] \in WhiteSpace \cup {">", "/"}

ClosingTag(tag) == <<"<", "/">> \o tag \o <<">">>

Raw(c) == c \in WhiteSpace \cup {"<", ">"}

\* C4: ignore-element opacity: after setIgnoreElement, for every name in
\* config.ignore, the span from an opening tag of that name to the nearest
\* closing tag of that name keeps its two tags as they were and holds between
\* them no raw "<", ">", newline, carriage return or other whitespace.  Stated
\* for the leftmost span of each name, whose place in the output is known
\* because nothing before it is encoded.
IgnoredElementOpacity ==
    applied = <<"setIgnoreElement">> =>
      \A e \in 1..Len(config.ignore) :
        LET tag    == config.ignore[e]
            opens  == {i \in 1..Len(input) : OpensAt(input, i, tag)}
        IN  opens # {} =>
              LET i == CHOOSE x \in opens : \A y \in opens : x <= y
                  g == IndexOf(input, <<">">>, i)
                  c == IF g = 0 THEN 0 ELSE IndexOf(input, ClosingTag(tag), g + 1)
              IN  c # 0 =>
                    /\ SubSeq(html, 1, g) = SubSeq(input, 1, g)
                    /\ \E n \in 0..Len(html) :
                         /\ OccursAt(html, ClosingTag(tag), g + n + 1)
                         /\ \A j \in (g + 1)..(g + n) : ~Raw(html[j])

----------------------------------------------------------------------------
(* The tag-bracket pair alone, on attribute values that hold brackets and    *)
(* fragments of the sentinel.                                                *)

MaxBracketLen == 4
SentinelTail == SubSeq(ATTRIBUTE_IGNORE_STRING, 2, Len(ATTRIBUTE_IGNORE_STRING))
BracketVocabulary ==
    {<<"<", "a", " ", "b", "=", "\"">>, <<"\"", ">">>, <<"<">>, <<">">>, <<"x">>,
     <<"!">>, SentinelTail \o LT, SentinelTail \o GT}

InitBrackets == \E h \in Words(BracketVocabulary, MaxBracketLen) : Format(h, CONFIG)

NextBrackets == SetIgnoreAttribute \/ UnsetIgnoreAttribute

SpecBrackets == InitBrackets /\ [][NextBrackets]_vars

\* C10: tag-bracket round trip: unsetIgnoreAttribute(setIgnoreAttribute(h)) = h
\* for every h that does not contain the attribute sentinel.
BracketRoundTrip ==
    (/\ applied = <<"setIgnoreAttribute", "unsetIgnoreAttribute">>
     /\ ~Contains(input, ATTRIBUTE_IGNORE_STRING))
    => html = input

\* C10, as the code has it: the round trip holds for every h that holds
\* neither the attribute sentinel nor the sentinel less its leading '!'; every
\* '<' and '>' encoded inside an attribute region is restored.
BracketRoundTripOffSentinel ==
    (/\ applied = <<"setIgnoreAttribute", "unsetIgnoreAttribute">>
     /\ ~Contains(input, SentinelTail))
    => html = input

\* both brackets of an attribute value were encoded and are back
BracketRoundTripWitness ==
    /\ applied = <<"setIgnoreAttribute", "unsetIgnoreAttribute">>
    /\ ~Contains(input, SentinelTail)
    /\ Contains(setIgnoreAttribute(input), AttrToken(LT))
    /\ Contains(setIgnoreAttribute(input), AttrToken(GT))
    /\ html = input

----------------------------------------------------------------------------
(* trimify alone.                                                            *)

MaxTrimLen == 4
TrimVocabulary ==
    {<<"<", "p", ">">>, <<"<", "/", "p", ">">>, <<"<", "p", "r", "e", ">">>,
     <<"<", "/", "p", "r", "e", ">">>, <<"<", "p", " ", "a", ">">>,
     <<" ">>, <<"\n">>, <<"x">>}
TrimLists == {<<<<"p">>>>, <<<<"p", "r", "e">>>>, <<<<"p">>, <<"p", "r", "e">>>>}

InitTrim ==
    \E h \in Words(TrimVocabulary, MaxTrimLen), t \in TrimLists :
        Format(h, Configured(<<>>, CONFIG.ignore_with, t))

NextTrim == Trimify

SpecTrim == InitTrim /\ [][NextTrim]_vars

\* position j of s is whitespace in the run that follows an opening tag of the
\* element named tag, or in the run that precedes its closing tag
Adjacent(s, j, tag) ==
    /\ s[j] \in WhiteSpace
    /\ \/ \E i \in 1..j :
            /\ OpensAt(s, i, tag)
            /\ LET g == IndexOf(s, <<">">>, i)
               IN  g # 0 /\ g < j /\ \A k \in (g + 1)..j : s[k] \in WhiteSpace
       \/ \E c \in (j + 1)..Len(s) :
            /\ OccursAt(s, ClosingTag(tag), c)
            /\ \A k \in j..(c - 1) : s[k] \in WhiteSpace

Listed(trim) == {trim[e] : e \in 1..Len(trim)}

\* s without the positions of the set D
RECURSIVE Without(_, _, _)
Without(s, D, j) ==
    IF j > Len(s) THEN <<>>
    ELSE (IF j \in D THEN <<>> ELSE <<s[j]>>) \o Without(s, D, j + 1)

\* C9: trim scope: trimify(html, trim) is html without the whitespace runs next
\* to the tags of elements whose name is exactly a listed one; nothing else is
\* changed, and without an element of a listed name the output is html.
TrimScope ==
    applied = <<"trimify">> =>
      /\ html = Without(input,
                        {j \in 1..Len(input) :
                            \E tag \in Listed(config.trim) : Adjacent(input, j, tag)}, 1)
      /\ (\A tag \in Listed(config.trim) :
            /\ \A i \in 1..Len(input) : ~OpensAt(input, i, tag)
            /\ ~Contains(input, ClosingTag(tag)))
         => html = input

----------------------------------------------------------------------------
(* JavaScript values.  A primitive is a record with its type; an object or  *)
(* an array is a reference into the heap.  A number is held in tenths, so   *)
(* that 4.9 is 49; one whose magnitude exceeds Number.MAX_SAFE_INTEGER      *)
(* (2^53 - 1, beyond the integers of the model checker) is marked big and   *)
(* holds only its sign.                                                     *)

Undefined == [t |-> "undefined"]
Null == [t |-> "null"]
Bool(b) == [t |-> "boolean", b |-> b]
Decimal(tenths) == [t |-> "number", v |-> tenths, big |-> FALSE]
Num(n) == Decimal(10 * n)
Huge == [t |-> "number", v |-> 1, big |-> TRUE]
Str(s) == [t |-> "string", v |-> s]
Ref(a) == [t |-> "object", a |-> a]

\* typeof x
TypeOf(x) == IF x.t = "null" THEN "object" ELSE x.t

\* the truthiness of x, as in if (x), !x and x || y
Truthy(x) ==
    CASE x.t = "undefined" -> FALSE
      [] x.t = "null" -> FALSE
      [] x.t = "boolean" -> x.b
      [] x.t = "number" -> x.v # 0
      [] x.t = "string" -> x.v # <<>>
      [] x.t = "object" -> TRUE

\* Array.isArray(x)
IsArray(h, x) == x.t = "object" /\ h[x.a].k = "array"

\* Number.isFinite(x), for a number
IsFinite(x) == TRUE

\* Number.isSafeInteger(x), for a number
IsSafeInteger(x) == ~x.big /\ x.v % 10 = 0

\* Math.floor(x)
Floor(x) == IF x.big THEN x ELSE [x EXCEPT !.v = 10 * (x.v \div 10)]

\* x < n and x > n for a number x and an integer n
Below(x, n) == IF x.big THEN x.v < 0 ELSE x.v < 10 * n
Above(x, n) == IF x.big THEN x.v > 0 ELSE x.v > 10 * n

\* the seven recognized keys, in the order of utils.js 235-241
RecognizedKeys ==
    <<"ignore", "ignore_with", "strict", "tab_size", "tag_wrap", "tag_wrap_width", "trim">>

\* Object.keys(o), for the object in cell o.  The order of the keys does not
\* show in what a merge returns; the recognized order stands for it.
Keys(o) == SelectSeq(RecognizedKeys, LAMBDA k : k \in DOMAIN o.f)

\* Object.hasOwn(x, key), for a reference x
HasOwn(h, x, key) == h[x.a].k = "object" /\ key \in DOMAIN h[x.a].f

\* x[key]
Get(h, x, key) == IF HasOwn(h, x, key) THEN h[x.a].f[key] ELSE Undefined

\* o with o[key] = v
Put(o, key, v) ==
    [o EXCEPT !.f = [k \in DOMAIN o.f \cup {key} |-> IF k = key THEN v ELSE o.f[k]]]

\* the outcome of a call: the heap it leaves, what it returned, what it threw
Return(h, v) == [heap |-> h, val |-> v, err |-> ""]
Throw(h, e) == [heap |-> h, val |-> Undefined, err |-> e]

\* structuredClone(x): a deep copy.  The arrays of a configuration hold
\* primitives, which a copy holds as they are.
RECURSIVE structuredClone(_, _), CloneFields(_, _, _, _)
structuredClone(h, x) ==
    IF x.t # "object" THEN Return(h, x)
    ELSE IF h[x.a].k = "array" THEN Return(Append(h, h[x.a]), Ref(Len(h) + 1))
    ELSE CloneFields(h, h[x.a], Keys(h[x.a]), [k |-> "object", f |-> <<>>])

CloneFields(h, o, ks, copy) ==
    IF ks = <<>> THEN Return(Append(h, copy), Ref(Len(h) + 1))
    ELSE LET c == structuredClone(h, o.f[Head(ks)])
         IN  CloneFields(c.heap, o, Tail(ks), Put(copy, Head(ks), c.val))

\* an array merge that replaces the current elements by the updates
ReplacingArray(h, current, updates) ==
    IF IsArray(h, updates) THEN structuredClone(h, updates)
    ELSE Return(Append(h, [k |-> "array", e |-> <<updates>>]), Ref(Len(h) + 1))

\* utils.js 43: merged = structuredClone(current).concat(updates)
MergeArray(h, current, updates) ==
    LET c    == structuredClone(h, current)
        more == IF IsArray(c.heap, updates) THEN c.heap[updates.a].e ELSE <<updates>>
    IN  Return(Append(c.heap, [k |-> "array", e |-> c.heap[c.val.a].e \o more]),
               Ref(Len(c.heap) + 1))

\* utils.js 33-57.  MergeKeys is the loop of lines 46-53 over the keys left.
RECURSIVE mergeObjects(_, _, _), MergeKeys(_, _, _, _)
mergeObjects(h, current, updates) ==
    IF ~Truthy(current) \/ ~Truthy(updates)
    THEN Throw(h, "Both 'current' and 'updates' must be passed-in to mergeObjects()")
    ELSE IF IsArray(h, current) THEN MergeArray(h, current, updates)
    ELSE IF TypeOf(current) = "object"
         THEN MergeKeys(Append(h, h[current.a]), Ref(Len(h) + 1), updates,
                        Keys(h[updates.a]))
         ELSE Return(h, Undefined)

MergeKeys(h, merged, updates, ks) ==
    IF ks = <<>> THEN Return(h, merged)
    ELSE LET key == Head(ks)
             u   == h[updates.a].f[key]
         IN  IF TypeOf(u) # "object"
             THEN MergeKeys([h EXCEPT ![merged.a] = Put(@, key, u)],
                            merged, updates, Tail(ks))
             ELSE LET had  == Get(h, merged, key)
                      h1   == IF Truthy(had) THEN h
                              ELSE Append(h, [k |-> "object", f |-> <<>>])
                      cur  == IF Truthy(had) THEN had ELSE Ref(Len(h) + 1)
                      r    == mergeObjects(h1, cur, u)
                  IN  IF r.err # "" THEN r
                      ELSE MergeKeys([r.heap EXCEPT ![merged.a] = Put(@, key, r.val)],
                                     merged, updates, Tail(ks))

\* utils.js 66-72
mergeConfig(h, dconfig, cfg) ==
    LET c == structuredClone(h, dconfig) IN mergeObjects(c.heap, c.val, cfg)

\* the shared default configuration: the object at address 1, its ignore
\* and trim arrays at addresses 2 and 3
ConfigRef == Ref(1)
ConfigHeap ==
    <<[k |-> "object",
       f |-> [ignore         |-> Ref(2),
              ignore_with    |-> Str(CONFIG.ignore_with),
              strict         |-> Bool(CONFIG.strict),
              tab_size       |-> Num(CONFIG.tab_size),
              tag_wrap       |-> Bool(CONFIG.tag_wrap),
              tag_wrap_width |-> Num(CONFIG.tag_wrap_width),
              trim           |-> Ref(3)]],
      [k |-> "array", e |-> CONFIG.ignore],
      [k |-> "array", e |-> CONFIG.trim]>>

\* Array.isArray(x) && x.every((e) => typeof e === 'string')
ArrayOfStrings(h, x) ==
    IsArray(h, x) /\ \A i \in 1..Len(h[x.a].e) : TypeOf(h[x.a].e[i]) = "string"

\* utils.js 246-262: the tab_size block; what it throws and the heap it leaves
TabSize(h, cfg) ==
    LET tab_size == Get(h, cfg, "tab_size") IN
    IF ~Truthy(tab_size) THEN Return(h, tab_size)
    ELSE IF TypeOf(tab_size) # "number" THEN Throw(h, "tab_size must be a number")
    ELSE IF ~IsSafeInteger(tab_size) THEN Throw(h, "Tab size is not safe")
    ELSE IF Below(Floor(tab_size), 1) \/ Above(Floor(tab_size), 16)
         THEN Throw(h, "Tab size out of range. Expecting 1 to 16.")
    ELSE Return([h EXCEPT ![cfg.a] = Put(@, "tab_size", Floor(tab_size))],
                Floor(tab_size))

\* utils.js 264-280: the first check that fails, "" when none does
FieldError(h, cfg) ==
    IF HasOwn(h, cfg, "ignore") /\ ~ArrayOfStrings(h, Get(h, cfg, "ignore"))
    THEN "Ignore config must be an array of strings."
    ELSE IF HasOwn(h, cfg, "ignore_with")
            /\ TypeOf(Get(h, cfg, "ignore_with")) # "string"
    THEN "Ignore_with config must be a string"
    ELSE IF HasOwn(h, cfg, "strict") /\ TypeOf(Get(h, cfg, "strict")) # "boolean"
    THEN "Strict config must be a boolean"
    ELSE IF HasOwn(h, cfg, "tag_wrap") /\ TypeOf(Get(h, cfg, "tag_wrap")) # "boolean"
    THEN "tag_wrap config must be a boolean"
    ELSE IF HasOwn(h, cfg, "tag_wrap_width")
            /\ TypeOf(Get(h, cfg, "tag_wrap_width")) # "number"
    THEN "tag_wrap_width config must be a number"
    ELSE IF HasOwn(h, cfg, "trim") /\ ~ArrayOfStrings(h, Get(h, cfg, "trim"))
    THEN "Trim config must be an array of strings."
    ELSE ""

\* utils.js 234-242: config_empty
ConfigEmpty(h, cfg) ==
    \A i \in 1..Len(RecognizedKeys) : ~HasOwn(h, cfg, RecognizedKeys[i])

\* utils.js 231-284
validateConfig(h, cfg) ==
    IF TypeOf(cfg) # "object" THEN Throw(h, "Config must be an object.")
    ELSE IF cfg.t = "null" THEN Throw(h, "TypeError: Object.hasOwn called on null")
    ELSE IF ConfigEmpty(h, cfg) THEN Return(h, ConfigRef)
    ELSE LET tab == TabSize(h, cfg) IN
         IF tab.err # "" THEN tab
         ELSE IF FieldError(tab.heap, cfg) # ""
              THEN Throw(tab.heap, FieldError(tab.heap, cfg))
              ELSE mergeConfig(tab.heap, ConfigRef, cfg)

----------------------------------------------------------------------------
(* Calls of validateConfig and mergeConfig.  The caller writes its argument *)
(* as a literal, which is laid out in the heap when the call begins.        *)

Absent == [t |-> "absent"]
ArrayLiteral(es) == [t |-> "array", e |-> es]
ObjectLiteral(fields) == [t |-> "literal", f |-> fields]

\* the object literal with the given values, a key left out when Absent
Object(ignore, ignore_with, strict, tab_size, tag_wrap, tag_wrap_width, trim) ==
    LET all == [ignore |-> ignore, ignore_with |-> ignore_with, strict |-> strict,
                tab_size |-> tab_size, tag_wrap |-> tag_wrap,
                tag_wrap_width |-> tag_wrap_width, trim |-> trim]
    IN  ObjectLiteral([k \in {x \in DOMAIN all : all[x] # Absent} |-> all[k]])

\* the literal x laid out in the heap h
RECURSIVE Literal(_, _), LiteralFields(_, _, _, _)
Literal(h, x) ==
    IF x.t = "array" THEN Return(Append(h, [k |-> "array", e |-> x.e]), Ref(Len(h) + 1))
    ELSE IF x.t = "literal"
         THEN LiteralFields(h, x, SelectSeq(RecognizedKeys, LAMBDA k : k \in DOMAIN x.f),
                            [k |-> "object", f |-> <<>>])
         ELSE Return(h, x)

LiteralFields(h, x, ks, o) ==
    IF ks = <<>> THEN Return(Append(h, o), Ref(Len(h) + 1))
    ELSE LET v == Literal(h, x.f[Head(ks)])
         IN  LiteralFields(v.heap, x, Tail(ks), Put(o, Head(ks), v.val))

\* the value of x in the heap h, as the literal that writes it
RECURSIVE Deep(_, _)
Deep(h, x) ==
    IF x.t # "object" THEN x
    ELSE IF h[x.a].k = "array" THEN ArrayLiteral(h[x.a].e)
    ELSE ObjectLiteral([k \in DOMAIN h[x.a].f |-> Deep(h, h[x.a].f[k])])

\* the addresses of the object or array x and of the arrays it holds
Reach(h, x) ==
    IF x.t # "object" THEN {}
    ELSE IF h[x.a].k = "array" THEN {x.a}
    ELSE {x.a} \cup {h[x.a].f[k].a : k \in {y \in DOMAIN h[x.a].f : h[x.a].f[y].t = "object"}}

Foo == <<"f", "o", "o">>
Bar == <<"b", "a", "r">>

TabSizes ==
    {Absent, Undefined, Null, Num(0), Num(1), Num(4), Num(16), Num(17), Num(-1),
     Decimal(49), Huge, Str(<<"4">>)}
Ignores == {Absent, ArrayLiteral(<<>>), ArrayLiteral(<<Str(Foo)>>),
            ArrayLiteral(<<Num(1)>>), Str(Foo)}
IgnoreWiths == {Absent, Str(<<"X">>), Num(5)}
Stricts == {Absent, Bool(TRUE), Str(<<"y">>)}
TagWraps == {Absent, Bool(TRUE), Num(0)}
TagWrapWidths == {Absent, Num(100), Str(<<"8", "0">>)}
Trims == {Absent, ArrayLiteral(<<Str(<<"p">>)>>), Str(<<"p">>)}

\* what a caller may pass to validateConfig
Arguments ==
    {Object(a, b, c, d, e, f, g) :
        a \in Ignores, b \in IgnoreWiths, c \in Stricts, d \in TabSizes,
        e \in TagWraps, f \in TagWrapWidths, g \in Trims}
    \cup {Undefined, Null, Num(4), Str(Foo), ArrayLiteral(<<Str(Foo)>>)}

\* the overrides that pass the checks of validateConfig
Validated ==
    {x \in Arguments :
        /\ x.t = "literal"
        /\ LET lit == Literal(ConfigHeap, x)
           IN  /\ TabSize(lit.heap, lit.val).err = ""
               /\ FieldError(lit.heap, lit.val) = ""}

\* the defaults a caller may pass to mergeConfig
Defaults ==
    {Object(ArrayLiteral(a), Str(CONFIG.ignore_with), Bool(FALSE), Num(2), Bool(FALSE),
            Num(80), ArrayLiteral(g)) :
        a \in {<<>>, <<Str(Bar)>>}, g \in {<<>>, <<Str(<<"a">>)>>}}

MaxCalls == 2

Called(f, a, b, r, via) ==
    /\ applied' = <<f>>
    /\ arg' = a
    /\ before' = b
    /\ heap' = r.heap
    /\ ret' = r.val
    /\ err' = r.err
    /\ pc' = IF r.err # "" THEN "thrown" ELSE via
    /\ calls' = calls + 1
    /\ UNCHANGED <<html, input, config, stack>>

\* validateConfig(x) with the shared CONFIG
ValidateConfig ==
    /\ pc = "idle" /\ calls < MaxCalls
    /\ \E x \in Arguments :
         LET lit == Literal(heap, x) IN
         Called("validateConfig",
                [dconfig |-> ConfigRef, config |-> lit.val],
                [dconfig |-> Deep(heap, ConfigRef), config |-> x],
                validateConfig(lit.heap, lit.val),
                IF lit.val.t = "object" /\ ~ConfigEmpty(lit.heap, lit.val)
                THEN "merged" ELSE "default")

\* mergeConfig(d, x) with a default of the caller's and a validated override
MergeConfig ==
    /\ pc = "idle" /\ calls < MaxCalls
    /\ \E d \in Defaults, x \in Validated :
         LET dlit == Literal(heap, d)
             lit  == Literal(dlit.heap, x)
         IN  Called("mergeConfig",
                    [dconfig |-> dlit.val, config |-> lit.val],
                    [dconfig |-> d, config |-> x],
                    mergeConfig(lit.heap, dlit.val, lit.val),
                    "merged")

\* the caller drops its argument and the result; what only they held is
\* collected, the shared CONFIG stays
Release ==
    /\ pc \in {"merged", "default", "thrown"}
    /\ pc' = "idle"
    /\ heap' = SubSeq(heap, 1, Len(ConfigHeap))
    /\ arg' = 0 /\ before' = 0 /\ ret' = Undefined /\ err' = "" /\ applied' = <<>>
    /\ UNCHANGED <<html, input, config, stack, calls>>

InitConfig ==
    /\ html = <<>> /\ input = <<>> /\ config = CONFIG
    /\ pc = "idle" /\ stack = <<>> /\ applied = <<>>
    /\ heap = ConfigHeap /\ arg = 0 /\ before = 0 /\ ret = Undefined /\ err = ""
    /\ calls = 0

NextConfig == ValidateConfig \/ MergeConfig \/ Release

SpecConfig == InitConfig /\ [][NextConfig]_vars

Returned == pc \in {"merged", "default"}
Finished == pc \in {"merged", "default", "thrown"}

RecognizedKeySet == {RecognizedKeys[i] : i \in 1..Len(RecognizedKeys)}

\* the field key of the literal x holds what the data model asks of it
FieldOk(x, key) ==
    LET v == x.f[key] IN
    CASE key \in {"ignore", "trim"} ->
           v.t = "array" /\ \A i \in 1..Len(v.e) : v.e[i].t = "string"
      [] key = "ignore_with" -> v.t = "string"
      [] key \in {"strict", "tag_wrap"} -> v.t = "boolean"
      [] key = "tag_wrap_width" -> v.t = "number"
      [] key = "tab_size" ->
           v.t = "number" /\ ~v.big /\ v.v % 10 = 0 /\ 10 <= v.v /\ v.v <= 160

RangeKind(e) ==
    e \in {"Tab size is not safe", "Tab size out of range. Expecting 1 to 16."}

\* C5: the tab_size rule: a numeric tab_size is floored, then range-checked;
\* floored into [1,16] the call succeeds and returns the floored value (4.9 as
\* 4), floored outside [1,16] (0 and 17 included) it fails with a range error.
TabSizeRule ==
    (/\ Finished /\ applied = <<"validateConfig">>
     /\ before.config.t = "literal"
     /\ "tab_size" \in DOMAIN before.config.f
     /\ before.config.f.tab_size.t = "number")
    => LET floored == Floor(before.config.f.tab_size)
           others  == DOMAIN before.config.f \ {"tab_size"}
       IN  IF ~Below(floored, 1) /\ ~Above(floored, 16)
           THEN (\A k \in others : FieldOk(before.config, k))
                => /\ Returned
                   /\ Deep(heap, ret).f.tab_size = floored
           ELSE pc = "thrown" /\ RangeKind(err)

\* C6: the configuration invariant: whatever validateConfig returns has the
\* seven fields, each as the data model asks, tab_size an integer in [1,16].
ConfigurationInvariant ==
    (Returned /\ applied = <<"validateConfig">>)
    => LET c == Deep(heap, ret)
       IN  /\ c.t = "literal"
           /\ RecognizedKeySet \subseteq DOMAIN c.f
           /\ \A k \in RecognizedKeySet : FieldOk(c, k)

\* C7: no write-through: CONFIG always holds what it held at first, the
\* caller's argument holds after the call what it held before, and what a
\* merge returns shares no object or array with CONFIG or with the argument.
NoWriteThrough ==
    /\ Deep(heap, ConfigRef) = Deep(ConfigHeap, ConfigRef)
    /\ Finished =>
         /\ Deep(heap, arg.config) = before.config
         /\ Deep(heap, arg.dconfig) = before.dconfig
    /\ pc = "merged" =>
         Reach(heap, ret) \cap (Reach(heap, ConfigRef) \cup Reach(heap, arg.config)
                                \cup Reach(heap, arg.dconfig)) = {}

\* a second call has merged an override whose tab_size and ignore list it read
NoWriteThroughWitness ==
    /\ pc = "merged" /\ applied = <<"validateConfig">> /\ calls = 2
    /\ before.config = Object(ArrayLiteral(<<Str(Foo)>>), Absent, Absent, Num(4),
                              Absent, Absent, Absent)
    /\ Deep(heap, ret).f.ignore = ArrayLiteral(<<Str(Foo)>>)

\* C8: merge semantics: an array-valued field of the result is the default's
\* elements followed by the override's; a scalar field the override has holds
\* the override's value; a field the override lacks keeps the default's value.
MergeSemantics ==
    pc = "merged" =>
      LET d == before.dconfig.f
          o == before.config.f
          r == Deep(heap, ret).f
      IN  /\ DOMAIN r = RecognizedKeySet
          /\ \A k \in RecognizedKeySet :
               IF k \in {"ignore", "trim"}
               THEN r[k] = ArrayLiteral(d[k].e \o (IF k \in DOMAIN o THEN o[k].e ELSE <<>>))
               ELSE r[k] = (IF k \in DOMAIN o THEN o[k] ELSE d[k])

\* a default with a non-empty ignore list has been merged with an override
\* that adds to it, replaces a scalar and leaves the rest out
MergeSemanticsWitness ==
    /\ pc = "merged" /\ applied = <<"mergeConfig">>
    /\ before.dconfig.f.ignore = ArrayLiteral(<<Str(Bar)>>)
    /\ before.config = Object(ArrayLiteral(<<Str(Foo)>>), Absent, Absent, Num(4),
                              Absent, Absent, Absent)
    /\ Deep(heap, ret).f.ignore = ArrayLiteral(<<Str(Bar), Str(Foo)>>)
    /\ Deep(heap, ret).f.tab_size = Num(4)
    /\ Deep(heap, ret).f.strict = Bool(FALSE)

====
